---- MODULE Spec2Model ----
(***************************************************************************)
(* Minesweeper (src/main.py): the game engine behind the Tk front end.     *)
(* Every cell is a FieldButton; its engine state is the pair of fields     *)
(* is_mine / is_open / adjacent_mines and the two widget options the code  *)
(* reads back as state: "state" (normal / disabled) and "text" (the flag   *)
(* marker is the only record that a cell is flagged).                      *)
(***************************************************************************)
EXTENDS Integers, Sequences, FiniteSets, TLC

\* ---------------------------------------------------------------- bounds
\* Boards explored: every (height, width, mines) with height * width <=
\* MaxCells and mines <= MaxMines.
MaxCells == 4
MaxMines == 2

\* Wins on a preset board that a run of leaderboard sessions plays.
MaxSubmissions == 2

\* update_timer callbacks that the event queue holds at a time.
MaxPending == 2

\* Cells of the boards on which the mines are placed and counted.
MaxBoard == 9

\* Rows of the leaderboard files given to the loader: up to MaxRows rows that
\* it accepts, or up to MaxMixedRows rows of any kind.
MaxRows == 6
MaxMixedRows == 2

\* ------------------------------------------------------------- constants
MIN_HEIGHT == 1
MIN_WIDTH == 1
MAX_WIDTH == 50
MAX_HEIGHT == 23

\* Game difficulty presets (height, width, mines). The source has (9, 9, 15),
\* (16, 16, 40) and (16, 30, 99); they are scaled to boards a model checker
\* can play, keeping them distinct and in the same order of size. On the
\* beginner board a win takes one reveal or two, depending on where the mine
\* falls; the other two boards lie beyond MaxCells.
BEGINNER_OPTIONS == <<1, 3, 1>>
INTERMEDIATE_OPTIONS == <<3, 3, 2>>
EXPERT_OPTIONS == <<3, 5, 4>>

Difficulties == {"beginner", "intermediate", "expert"}

\* self.player_name before any name was entered.
None == "<None>"

\* What the name dialog can hand back: a typed name, or "<closed>" when the
\* dialog is closed without OK.
NameInputs == {""}

\* The whole seconds game_won can measure between the first reveal and the
\* win, for the wins the model plays.
ElapsedTimes == {0}

\* The files open(filename, 'w') can open, one choice per save_leaderboards.
WriteOutcomes == {Difficulties}

\* What the environment hands a handler: the elapsed seconds, the name typed
\* in the dialog and the writable files, each drawn from a set. Quiet is the
\* environment of a game played at once on a healthy disk.
Quiet == [times |-> ElapsedTimes, names |-> NameInputs,
          writable |-> WriteOutcomes]

VARIABLES
    height,          \* self.height
    width,           \* self.width
    mines,           \* self.mines
    game_over,       \* self.game_over
    is_first_click,  \* self.is_first_click
    flags_left,      \* self.flags_left
    timer_running,   \* self.timer_running
    is_mine,         \* FieldButton.is_mine, per cell of self.buttons
    adjacent_mines,  \* FieldButton.adjacent_mines
    is_open,         \* FieldButton.is_open
    state,           \* the button's Tk "state" option
    text,            \* the button's Tk "text" option
    player_name,     \* self.player_name
    leaderboards,    \* self.leaderboards: difficulty -> list of entries
    files,           \* the <difficulty>_leaderboard.csv files
    queue,           \* the work list of a reveal_empty_region in progress
    enq,             \* history: appends per cell in the latest flood fill
    handling,        \* the handle_click whose flood fill is in progress
    submissions,     \* history: update_leaderboard calls counted by sessions
    pending,         \* update_timer callbacks that root.after holds; the
                     \* timer specification follows them, the others leave
                     \* the event queue out
    lastOp           \* history: the engine call that produced this state

vars == <<height, width, mines, game_over, is_first_click, flags_left,
          timer_running, is_mine, adjacent_mines, is_open, state, text,
          player_name, leaderboards, files, queue, enq, handling,
          submissions, pending, lastOp>>

\* ------------------------------------------------------------- the grid
\* self.buttons: (height + 2) x (width + 2) buttons, the outer ring being
\* the sentinel border.
Grid(h, w) == (0..(h + 1)) \X (0..(w + 1))

\* The cells create_menu grids and numbers: rows 1..height, cols 1..width.
Interior(h, w) == (1..h) \X (1..w)

Cells == Grid(height, width)

Playable == Interior(height, width)

\* btn.number: row-major count starting at 1.
NumberOf(c) == (c[1] - 1) * width + c[2]

\* The 3 x 3 neighbourhood in the order of the nested loops over
\* [-1, 0, 1] (the cell itself included).
Offsets == << <<-1, -1>>, <<-1, 0>>, <<-1, 1>>,
              <<0, -1>>,  <<0, 0>>,  <<0, 1>>,
              <<1, -1>>,  <<1, 0>>,  <<1, 1>> >>

Neighbour(c, k) == <<c[1] + Offsets[k][1], c[2] + Offsets[k][2]>>

\* text values: "" (blank), "flag", "num" (a digit 1..8), "mine" ("*").
IsFlagged(c) == text[c] = "flag"

Min(a, b) == IF a < b THEN a ELSE b

\* ------------------------------------------------------------ new game
\* Boards the model explores.
Configs ==
    {cfg \in (MIN_HEIGHT..Min(MAX_HEIGHT, MaxCells))
               \X (MIN_WIDTH..Min(MAX_WIDTH, MaxCells))
               \X (0..MaxMines) :
        /\ cfg[1] * cfg[2] <= MaxCells
        /\ cfg[3] < cfg[1] * cfg[2]}

\* A new grid whose buttons take over is_mine of the buttons they replace.
FreshBoardKeepingMines(h, w) ==
    /\ is_mine' = [c \in Grid(h, w) |->
                      IF c \in DOMAIN is_mine THEN is_mine[c] ELSE FALSE]
    /\ adjacent_mines' = [c \in Grid(h, w) |-> 0]
    /\ is_open' = [c \in Grid(h, w) |-> FALSE]
    /\ state' = [c \in Grid(h, w) |-> "normal"]
    /\ text' = [c \in Grid(h, w) |-> ""]

\* FieldButton.__init__ for every button of the grid.
FreshBoard(h, w) ==
    /\ is_mine' = [c \in Grid(h, w) |-> FALSE]
    /\ adjacent_mines' = [c \in Grid(h, w) |-> 0]
    /\ is_open' = [c \in Grid(h, w) |-> FALSE]
    /\ state' = [c \in Grid(h, w) |-> "normal"]
    /\ text' = [c \in Grid(h, w) |-> ""]

\* A leaderboard file: absent, or its rows in order.
NoFile == [exists |-> FALSE, readable |-> TRUE, rows |-> <<>>]

\* No handle_click is between the start and the end of its flood fill.
NoHandler == [active |-> FALSE, cell |-> <<0, 0>>, placed |-> FALSE]

\* lastOp after a call that returned without doing anything.
NoOp(op) == [op |-> op, result |-> "noop", placed |-> FALSE,
             checked |-> FALSE, elapsed |-> 0]

\* A game on the board cfg that awaits its first reveal.
NewGameOn(cfg) ==
        /\ height = cfg[1]
        /\ width = cfg[2]
        /\ mines = cfg[3]
        /\ game_over = FALSE
        /\ is_first_click = TRUE
        /\ flags_left = cfg[3]
        /\ timer_running = FALSE
        /\ is_mine = [c \in Grid(cfg[1], cfg[2]) |-> FALSE]
        /\ adjacent_mines = [c \in Grid(cfg[1], cfg[2]) |-> 0]
        /\ is_open = [c \in Grid(cfg[1], cfg[2]) |-> FALSE]
        /\ state = [c \in Grid(cfg[1], cfg[2]) |-> "normal"]
        /\ text = [c \in Grid(cfg[1], cfg[2]) |-> ""]
        /\ player_name = None
        /\ leaderboards = [d \in Difficulties |-> <<>>]
        /\ files = [d \in Difficulties |-> NoFile]
        /\ queue = <<>>
        /\ enq = [c \in Grid(cfg[1], cfg[2]) |-> 0]
        /\ handling = NoHandler
        /\ submissions = 0
        /\ pending = 0
        /\ lastOp = [op |-> "newGame", result |-> "new",
                     placed |-> FALSE, checked |-> FALSE, elapsed |-> 0]

Init == \E cfg \in Configs : NewGameOn(cfg)

\* -------------------------------------------------------- mine placement
\* get_mines_places without indexes.remove(exclude_number).
get_mines_places_keep_clicked(exclude_number) ==
    LET indexes == 1..(width * height)
    IN  {M \in SUBSET indexes : Cardinality(M) = Min(mines, Cardinality(indexes))}

\* get_mines_places: the index lists shuffle can leave in indexes[:mines],
\* as sets (place_mines only tests membership).
get_mines_places(exclude_number) ==
    LET indexes == (1..(width * height)) \ {exclude_number}
    IN  {M \in SUBSET indexes : Cardinality(M) = Min(mines, Cardinality(indexes))}

\* place_mines: is_mine after the double loop over the interior.
place_mines(index_mines) ==
    [c \in Cells |->
        IF c \in Playable /\ NumberOf(c) \in index_mines THEN TRUE ELSE is_mine[c]]

\* The count over the four neighbours that share a side with c.
CountMinesBeside(im, c) ==
    Cardinality({k \in {2, 4, 6, 8} : im[Neighbour(c, k)]})

\* The inner double loop of calculate_adjacent_mines for the button at c.
CountMines(im, c) ==
    Cardinality({k \in 1..9 : im[Neighbour(c, k)]})

\* calculate_adjacent_mines: adjacent_mines of every interior button.
calculate_adjacent_mines(im) ==
    [c \in Cells |->
        IF c \in Playable
        THEN IF ~im[c] THEN CountMines(im, c) ELSE 0
        ELSE adjacent_mines[c]]

\* --------------------------------------------------------------- reveal
Range(q) == {q[i] : i \in 1..Len(q)}

RemoveAt(q, i) == SubSeq(q, 1, i - 1) \o SubSeq(q, i + 1, Len(q))

\* Which end of the work list the loop takes from: list.pop() takes the
\* last element ("stack"); "queue" is the first-in-first-out alternative.
TakeIndex(q, discipline) == IF discipline = "stack" THEN Len(q) ELSE 1

\* The append condition without the test "next_btn not in queue".
ShouldAppendPending(f, next) ==
    /\ ~f.is_open[next]
    /\ 1 <= next[1] /\ next[1] <= height
    /\ 1 <= next[2] /\ next[2] <= width

\* The condition under which reveal_empty_region appends next_btn.
ShouldAppend(f, next) ==
    /\ ~f.is_open[next]
    /\ 1 <= next[1] /\ next[1] <= height
    /\ 1 <= next[2] /\ next[2] <= width
    /\ next \notin Range(f.queue)

\* The nested dx / dy loops of reveal_empty_region around cur, from the
\* k-th neighbour on.
RECURSIVE AddNeighbours(_, _, _)
AddNeighbours(f, cur, k) ==
    IF k > 9 THEN f
    ELSE LET next == Neighbour(cur, k)
         IN  IF ShouldAppend(f, next)
             THEN AddNeighbours(
                      [f EXCEPT !.queue = Append(@, next),
                                !.enq[next] = @ + 1],
                      cur, k + 1)
             ELSE AddNeighbours(f, cur, k + 1)

\* One iteration of the while loop of reveal_empty_region.
FloodStep(f, discipline) ==
    LET i == TakeIndex(f.queue, discipline)
        cur == f.queue[i]
        marked == f.text[cur] = "flag"
        g == [f EXCEPT
                !.queue = RemoveAt(@, i),
                !.text[cur] = IF marked THEN @
                              ELSE IF f.adj[cur] # 0 THEN "num" ELSE "",
                !.state[cur] = IF marked THEN @ ELSE "disabled",
                !.is_open[cur] = TRUE]
    IN  IF f.adj[cur] = 0 THEN AddNeighbours(g, cur, 1) ELSE g

\* The while loop, run until the work list is empty.
RECURSIVE RevealLoop(_, _)
RevealLoop(f, discipline) ==
    IF f.queue = <<>> THEN f ELSE RevealLoop(FloodStep(f, discipline), discipline)

\* The state reveal_empty_region starts from: queue = [btn].
FloodStart(btn, adj, o, st, tx) ==
    [queue |-> <<btn>>, adj |-> adj, is_open |-> o, state |-> st, text |-> tx,
     enq |-> [c \in Cells |-> IF c = btn THEN 1 ELSE 0]]

reveal_empty_region(btn, adj, o, st, tx) ==
    RevealLoop(FloodStart(btn, adj, o, st, tx), "stack")

\* check_win without the test for a flag on a non-mine.
check_win_ignoring_flags(im, o, tx) ==
    \A c \in Playable : ~(~im[c] /\ ~o[c])

\* check_win: no interior button is a closed non-mine or a flagged non-mine.
check_win(im, o, tx) ==
    \A c \in Playable :
        ~((~im[c] /\ ~o[c]) \/ (tx[c] = "flag" /\ ~im[c]))

\* game_lost marking only the clicked mine, without the reveal-all loop.
LostTextClickedOnly(button, im) == [text EXCEPT ![button] = "mine"]

\* game_lost: the texts after the clicked button and then every mine got "*".
LostText(button, im) ==
    [c \in Cells |->
        IF c = button \/ (c \in Playable /\ im[c]) THEN "mine" ELSE text[c]]

\* game_lost: every interior button ends disabled (game_won does the same).
AllDisabled(st) ==
    [c \in Cells |-> IF c \in Playable THEN "disabled" ELSE st[c]]

\* ---------------------------------------------------------- leaderboards
\* A leaderboard file is [exists, readable, rows]: rows is what csv.reader
\* yields, a list of rows, each a list of strings; a file that is not
\* readable makes open or the reader raise.
LeaderboardEntry(name, time) == [name |-> name, time |-> time]

\* entries[:5]
Take5(entries) == SubSeq(entries, 1, Min(5, Len(entries)))

\* list.sort(key=lambda x: x.time): a stable sort, by insertion.
RECURSIVE InsertByTime(_, _)
InsertByTime(sorted, e) ==
    IF sorted = <<>> THEN <<e>>
    ELSE IF sorted[Len(sorted)].time <= e.time THEN Append(sorted, e)
    ELSE Append(InsertByTime(SubSeq(sorted, 1, Len(sorted) - 1), e),
                sorted[Len(sorted)])

RECURSIVE SortByTime(_)
SortByTime(entries) ==
    IF entries = <<>> THEN <<>>
    ELSE InsertByTime(SortByTime(SubSeq(entries, 1, Len(entries) - 1)),
                      entries[Len(entries)])

\* The integers whose decimal text occurs in the model's files and times.
IntValues == {-5, 0, 1, 999, 1000}

\* int(time_str) succeeds: the text is the decimal form of an integer.
IsIntText(time_str) == \E n \in IntValues : ToString(n) = time_str

\* int(time_str)
IntOf(time_str) == CHOOSE n \in IntValues : ToString(n) = time_str

\* The test of the rows loop without time_val > 0.
RowAcceptedAnyTime(row) ==
    /\ Len(row) = 2
    /\ IsIntText(row[2])

\* The body of the rows loop: the row is appended as an entry, or skipped.
RowAccepted(row) ==
    /\ Len(row) = 2
    /\ IsIntText(row[2])
    /\ IntOf(row[2]) > 0

RowEntry(row) ==
    LeaderboardEntry(IF row[1] = "" THEN "Anonymous" ELSE row[1],
                     IF IntOf(row[2]) > 999 THEN 999 ELSE IntOf(row[2]))

\* The rows loop of load_leaderboards: the entries kept, in file order.
RECURSIVE ParseRows(_)
ParseRows(rows) ==
    IF rows = <<>> THEN <<>>
    ELSE LET row == rows[Len(rows)]
             before == ParseRows(SubSeq(rows, 1, Len(rows) - 1))
         IN  IF RowAccepted(row) THEN Append(before, RowEntry(row)) ELSE before

\* load_leaderboards: a difficulty without a file keeps its entries, a file
\* that cannot be read leaves none.
load_leaderboards(lb, fs) ==
    [d \in Difficulties |->
        IF ~fs[d].exists THEN lb[d]
        ELSE IF ~fs[d].readable THEN <<>>
        ELSE Take5(SortByTime(ParseRows(fs[d].rows)))]

\* writer.writerow([entry.name, entry.time]): None is written as "".
WriteRow(entry) ==
    <<IF entry.name = None THEN "" ELSE entry.name, ToString(entry.time)>>

\* save_leaderboards: every file that can be opened for writing is rewritten,
\* the others are left as they are.
save_leaderboards(lb, fs, writable) ==
    [d \in Difficulties |->
        IF d \in writable
        THEN [exists |-> TRUE, readable |-> TRUE,
              rows |-> [i \in 1..Len(lb[d]) |-> WriteRow(lb[d][i])]]
        ELSE fs[d]]

\* prompt_player_name: self.player_name after the dialog.
prompt_player_name(input) ==
    IF input = "<closed>" THEN player_name
    ELSE IF input = "" THEN "Anonymous" ELSE input

\* The test for a top-5 time with <= in place of <.
QualifiesOrTies(entries, time_elapsed) ==
    Len(entries) < 5 \/ time_elapsed <= entries[Len(entries)].time

\* The test of update_leaderboard for a top-5 time.
Qualifies(entries, time_elapsed) ==
    Len(entries) < 5 \/ time_elapsed < entries[Len(entries)].time

\* update_leaderboard(difficulty, time_elapsed), show_leaderboards included.
update_leaderboard(difficulty, time_elapsed, input, writable) ==
    LET loaded == load_leaderboards(leaderboards, files)
        entries == loaded[difficulty]
        name == prompt_player_name(input)
        added == [loaded EXCEPT ![difficulty] =
                     Take5(SortByTime(Append(entries,
                               LeaderboardEntry(name, time_elapsed))))]
        saved == save_leaderboards(added, files, writable)
    IN  IF Qualifies(entries, time_elapsed)
        THEN /\ player_name' = name
             /\ files' = saved
             /\ leaderboards' = load_leaderboards(added, saved)
        ELSE /\ leaderboards' = loaded
             /\ UNCHANGED <<player_name, files>>

\* The difficulty game_won finds for the current settings, or None.
CurrentDifficulty ==
    LET current_settings == <<height, width, mines>>
    IN  IF current_settings = BEGINNER_OPTIONS THEN "beginner"
        ELSE IF current_settings = INTERMEDIATE_OPTIONS THEN "intermediate"
        ELSE IF current_settings = EXPERT_OPTIONS THEN "expert"
        ELSE None

\* game_won, the leaderboard part: update_leaderboard if a preset is played.
game_won(elapsed, input, writable) ==
    IF CurrentDifficulty # None
    THEN update_leaderboard(CurrentDifficulty, elapsed, input, writable)
    ELSE UNCHANGED <<player_name, leaderboards, files>>

\* ------------------------------------------------------------- actions
\* lastOp: the call, its result, whether it placed the mines, whether it ran
\* check_win and, for a win, the elapsed seconds game_won measured.
Op(op, result, placed, checked) ==
    [op |-> op, result |-> result, placed |-> placed, checked |-> checked,
     elapsed |-> 0]

WinOp(placed, elapsed) ==
    [op |-> "reveal", result |-> "Win", placed |-> placed, checked |-> TRUE,
     elapsed |-> elapsed]

\* game_lost(button), reached from handle_click with the mines im.
game_lost(c, im, adj, placed) ==
    /\ is_mine' = im
    /\ adjacent_mines' = adj
    /\ text' = LostText(c, im)
    /\ state' = AllDisabled(state)
    /\ timer_running' = FALSE
    /\ game_over' = TRUE
    /\ lastOp' = Op("reveal", "Loss", placed, FALSE)
    /\ UNCHANGED <<height, width, mines, flags_left, is_open, player_name,
                   leaderboards, files, queue, handling>>
    /\ enq' = [d \in Cells |-> 0]

\* The end of the non-mine branch of handle_click, f holding the buttons as
\* the opening left them: disable the button, then check_win and, on a win,
\* game_won.
finish_click(c, im, adj, placed, timer, f, inp) ==
    LET st == [f.state EXCEPT ![c] = "disabled"]
        won == check_win(im, f.is_open, f.text)
    IN  /\ is_mine' = im
        /\ adjacent_mines' = adj
        /\ is_open' = f.is_open
        /\ text' = f.text
        /\ state' = IF won THEN AllDisabled(st) ELSE st
        /\ timer_running' = IF won THEN FALSE ELSE timer
        /\ game_over' = won
        /\ IF won
           THEN \E elapsed \in inp.times, input \in inp.names,
                   writable \in inp.writable :
                    /\ game_won(elapsed, input, writable)
                    /\ lastOp' = WinOp(placed, elapsed)
           ELSE /\ lastOp' = Op("reveal", "Continue", placed, TRUE)
                /\ UNCHANGED <<player_name, leaderboards, files>>
        /\ queue' = <<>>
        /\ enq' = f.enq
        /\ handling' = NoHandler
        /\ UNCHANGED <<height, width, mines, flags_left>>

\* The buttons after the opening of a button with adjacent mines.
OpenNumbered(c) ==
    [is_open |-> [is_open EXCEPT ![c] = TRUE],
     state |-> state,
     text |-> [text EXCEPT ![c] = "num"],
     enq |-> [d \in Cells |-> 0]]

\* The non-mine branch of handle_click.
open_and_check(c, im, adj, placed, timer, inp) ==
    finish_click(c, im, adj, placed, timer,
                 IF adj[c] # 0 THEN OpenNumbered(c)
                 ELSE reveal_empty_region(c, adj, is_open, state, text),
                 inp)

\* handle_click(button), the command of the button at c. Tk does not run the
\* command of a button whose state is "disabled". inp is the environment.
handle_click(c, inp) ==
    IF state[c] # "normal" \/ game_over
    THEN /\ lastOp' = NoOp("reveal")
         /\ UNCHANGED <<height, width, mines, game_over, is_first_click,
                        flags_left, timer_running, is_mine, adjacent_mines,
                        is_open, state, text, player_name, leaderboards,
                        files, queue, enq, handling>>
    ELSE \E index_mines \in IF is_first_click
                            THEN get_mines_places(NumberOf(c))
                            ELSE {{}} :
            LET placed == is_first_click
                im == IF placed THEN place_mines(index_mines) ELSE is_mine
                adj == IF placed THEN calculate_adjacent_mines(im)
                       ELSE adjacent_mines
                timer == IF placed THEN TRUE ELSE timer_running
            IN  /\ is_first_click' = FALSE
                /\ IF im[c]
                   THEN game_lost(c, im, adj, placed)
                   ELSE open_and_check(c, im, adj, placed, timer, inp)

\* toggle_flag without the early return on game_over.
toggle_flag_after_game_over(c) ==
    IF state[c] = "normal" /\ flags_left > 0
    THEN /\ flags_left' = flags_left - 1
         /\ state' = [state EXCEPT ![c] = "disabled"]
         /\ text' = [text EXCEPT ![c] = "flag"]
         /\ lastOp' = Op("toggleFlag", "flagged", FALSE, FALSE)
    ELSE IF text[c] = "flag"
    THEN /\ flags_left' = flags_left + 1
         /\ state' = [state EXCEPT ![c] = "normal"]
         /\ text' = [text EXCEPT ![c] = ""]
         /\ lastOp' = Op("toggleFlag", "unflagged", FALSE, FALSE)
    ELSE /\ lastOp' = NoOp("toggleFlag")
         /\ UNCHANGED <<flags_left, state, text>>

\* toggle_flag without the test flags_left > 0.
toggle_flag_unlimited(c) ==
    IF game_over
    THEN /\ lastOp' = NoOp("toggleFlag")
         /\ UNCHANGED <<flags_left, state, text>>
    ELSE IF state[c] = "normal"
    THEN /\ flags_left' = flags_left - 1
         /\ state' = [state EXCEPT ![c] = "disabled"]
         /\ text' = [text EXCEPT ![c] = "flag"]
         /\ lastOp' = Op("toggleFlag", "flagged", FALSE, FALSE)
    ELSE IF text[c] = "flag"
    THEN /\ flags_left' = flags_left + 1
         /\ state' = [state EXCEPT ![c] = "normal"]
         /\ text' = [text EXCEPT ![c] = ""]
         /\ lastOp' = Op("toggleFlag", "unflagged", FALSE, FALSE)
    ELSE /\ lastOp' = NoOp("toggleFlag")
         /\ UNCHANGED <<flags_left, state, text>>

\* toggle_flag(event), the <Button-3> binding of the button at c.
toggle_flag(c) ==
    IF game_over
    THEN /\ lastOp' = NoOp("toggleFlag")
         /\ UNCHANGED <<flags_left, state, text>>
    ELSE IF state[c] = "normal" /\ flags_left > 0
    THEN /\ flags_left' = flags_left - 1
         /\ state' = [state EXCEPT ![c] = "disabled"]
         /\ text' = [text EXCEPT ![c] = "flag"]
         /\ lastOp' = Op("toggleFlag", "flagged", FALSE, FALSE)
    ELSE IF text[c] = "flag"
    THEN /\ flags_left' = flags_left + 1
         /\ state' = [state EXCEPT ![c] = "normal"]
         /\ text' = [text EXCEPT ![c] = ""]
         /\ lastOp' = Op("toggleFlag", "unflagged", FALSE, FALSE)
    ELSE /\ lastOp' = NoOp("toggleFlag")
         /\ UNCHANGED <<flags_left, state, text>>

\* reset_game on a board of the current height, width and mines.
reset_game(h, w, m) ==
    /\ timer_running' = FALSE
    /\ is_first_click' = TRUE
    /\ game_over' = FALSE
    /\ flags_left' = m
    /\ FreshBoard(h, w)
    /\ lastOp' = Op("newGame", "new", FALSE, FALSE)
    /\ enq' = [c \in Grid(h, w) |-> 0]
    /\ UNCHANGED <<player_name, leaderboards, files, queue, handling>>

\* set_difficulty(settings).
set_difficulty(settings) ==
    /\ height' = settings[1]
    /\ width' = settings[2]
    /\ mines' = settings[3]
    /\ reset_game(settings[1], settings[2], settings[3])

Reveal ==
    /\ \E c \in Playable : handle_click(c, Quiet)
    /\ UNCHANGED <<submissions, pending>>

ToggleFlag ==
    \E c \in Playable :
        /\ toggle_flag(c)
        /\ UNCHANGED <<height, width, mines, game_over, is_first_click,
                       timer_running, is_mine, adjacent_mines, is_open,
                       player_name, leaderboards, files, queue, enq,
                       handling, submissions, pending>>

ResetGame ==
    /\ reset_game(height, width, mines)
    /\ UNCHANGED <<height, width, mines, submissions, pending>>

SetDifficulty ==
    /\ \E settings \in Configs : set_difficulty(settings)
    /\ UNCHANGED <<submissions, pending>>

Next == Reveal \/ ToggleFlag \/ ResetGame \/ SetDifficulty

Spec == Init /\ [][Next]_vars

\* ------------------------------------------- the flood fill, step by step
\* The same program with the while loop of reveal_empty_region taken one
\* iteration at a time. Tk runs one handler at a time, so no other handler
\* starts while a handle_click is inside its loop.

\* The buttons and the work list as the loop sees them.
FloodView ==
    [queue |-> queue, adj |-> adjacent_mines, is_open |-> is_open,
     state |-> state, text |-> text, enq |-> enq]

\* handle_click(button) on an enabled button with no adjacent mines, up to
\* queue = [btn].
begin_flood(c) ==
    /\ handling = NoHandler
    /\ state[c] = "normal" /\ ~game_over
    /\ \E index_mines \in IF is_first_click
                          THEN get_mines_places(NumberOf(c))
                          ELSE {{}} :
          LET placed == is_first_click
              im == IF placed THEN place_mines(index_mines) ELSE is_mine
              adj == IF placed THEN calculate_adjacent_mines(im)
                     ELSE adjacent_mines
          IN  /\ ~im[c] /\ adj[c] = 0
              /\ is_mine' = im
              /\ adjacent_mines' = adj
              /\ is_first_click' = FALSE
              /\ timer_running' = IF placed THEN TRUE ELSE timer_running
              /\ queue' = <<c>>
              /\ enq' = FloodStart(c, adj, is_open, state, text).enq
              /\ handling' = [active |-> TRUE, cell |-> c, placed |-> placed]
    /\ UNCHANGED <<height, width, mines, game_over, flags_left, is_open,
                   state, text, player_name, leaderboards, files,
                   submissions, pending, lastOp>>

\* One iteration of the while loop.
StepLoop ==
    /\ handling.active
    /\ queue # <<>>
    /\ LET f == FloodStep(FloodView, "stack")
       IN  /\ queue' = f.queue
           /\ is_open' = f.is_open
           /\ state' = f.state
           /\ text' = f.text
           /\ enq' = f.enq
    /\ UNCHANGED <<height, width, mines, game_over, is_first_click,
                   flags_left, timer_running, is_mine, adjacent_mines,
                   player_name, leaderboards, files, handling, submissions,
                   pending, lastOp>>

\* The loop has ended: the rest of handle_click.
StepEnd ==
    /\ handling.active
    /\ queue = <<>>
    /\ finish_click(handling.cell, is_mine, adjacent_mines, handling.placed,
                    timer_running, FloodView, Quiet)
    /\ UNCHANGED <<is_first_click, submissions, pending>>

\* A click that starts a flood fill.
StepBegin == \E c \in Playable : begin_flood(c)

\* A click that runs no flood fill: a disabled button, a mine, a numbered
\* cell.
StepClick ==
    /\ handling = NoHandler
    /\ \E c \in Playable :
          /\ handle_click(c, Quiet)
          /\ lastOp'.result = "noop" \/ lastOp'.result = "Loss"
                \/ adjacent_mines'[c] # 0
    /\ UNCHANGED <<submissions, pending>>

StepToggleFlag == handling = NoHandler /\ ToggleFlag

StepResetGame == handling = NoHandler /\ ResetGame

StepSetDifficulty == handling = NoHandler /\ SetDifficulty

NextStep ==
    \/ StepBegin
    \/ StepLoop
    \/ StepEnd
    \/ StepClick
    \/ StepToggleFlag
    \/ StepResetGame
    \/ StepSetDifficulty

\* The loop body neither blocks nor waits: an iteration that can run does.
SpecStep == Init /\ [][NextStep]_vars /\ WF_vars(StepLoop) /\ WF_vars(StepEnd)

\* ------------------------------------------------- leaderboard sessions
\* The same program over several sessions, with time passing, names typed,
\* saves and deletions that can fail, and leaderboard files left by earlier
\* sessions or edited by hand.

\* Elapsed seconds of a win: at once, a short game, and games as long as the
\* three digits of the timer label can show and longer.
SessionTimes == {0, 1, 999, 1000}

\* The name dialog: OK on an empty entry, a typed name, the dialog closed.
SessionNames == {"", "a", "<closed>"}

\* Every file can be written, or none can.
SessionWrites == {Difficulties, {}}

\* Every file can be deleted, or only the intermediate one: the removal of
\* the beginner file, the first of the loop, then raises.
SessionDeletes == {Difficulties, {"intermediate"}}

Session == [times |-> SessionTimes, names |-> SessionNames,
            writable |-> SessionWrites]

\* A file whose bytes make the reader raise.
Garbled == [exists |-> TRUE, readable |-> FALSE, rows |-> << <<"a", "1">> >>]

\* A file with well-formed rows among rows the loader has to skip: one field,
\* a negative time, a time that is no integer, three fields, an empty line, a
\* time of zero; and rows it has to repair: an empty name, a time above 999.
Mixed ==
    [exists |-> TRUE, readable |-> TRUE,
     rows |-> << <<"bob">>, <<"b", "999">>, <<"bob", "-5">>,
                 <<"bob", "abc">>, <<"", "1000">>, <<"a", "1", "x">>, <<>>,
                 <<"z", "0">>, <<"c", "1">> >>]

\* A file as a session that won once in 1 second with the name "b" left it.
OneRow == [exists |-> TRUE, readable |-> TRUE, rows |-> << <<"b", "1">> >>]

\* A file with five well-formed rows, in the order save_leaderboards writes.
Full ==
    [exists |-> TRUE, readable |-> TRUE,
     rows |-> << <<"b", "1">>, <<"c", "1">>, <<"d", "1">>, <<"e", "999">>,
                 <<"f", "999">> >>]

\* The leaderboard files a session can find at its start.
StartFiles ==
    {[beginner |-> b, intermediate |-> OneRow, expert |-> NoFile] :
        b \in {NoFile, Garbled, Mixed, Full}}

\* The game variables, which the leaderboard window leaves alone.
gameVars == <<height, width, mines, game_over, is_first_click, flags_left,
              timer_running, is_mine, adjacent_mines, is_open, state, text,
              queue, enq, handling>>

\* MinesweeperGame.__init__: the beginner board, no name, empty leaderboards;
\* the files are not read.
StartProgram ==
    /\ height' = BEGINNER_OPTIONS[1]
    /\ width' = BEGINNER_OPTIONS[2]
    /\ mines' = BEGINNER_OPTIONS[3]
    /\ game_over' = FALSE
    /\ is_first_click' = TRUE
    /\ flags_left' = BEGINNER_OPTIONS[3]
    /\ timer_running' = FALSE
    /\ FreshBoard(BEGINNER_OPTIONS[1], BEGINNER_OPTIONS[2])
    /\ enq' = [c \in Grid(BEGINNER_OPTIONS[1], BEGINNER_OPTIONS[2]) |-> 0]
    /\ player_name' = None
    /\ leaderboards' = [d \in Difficulties |-> <<>>]
    /\ UNCHANGED <<queue, handling>>

\* The program has started: everything but the files it finds.
Started ==
    /\ height = BEGINNER_OPTIONS[1]
    /\ width = BEGINNER_OPTIONS[2]
    /\ mines = BEGINNER_OPTIONS[3]
    /\ game_over = FALSE
    /\ is_first_click = TRUE
    /\ flags_left = BEGINNER_OPTIONS[3]
    /\ timer_running = FALSE
    /\ is_mine = [c \in Grid(BEGINNER_OPTIONS[1], BEGINNER_OPTIONS[2]) |-> FALSE]
    /\ adjacent_mines = [c \in Grid(BEGINNER_OPTIONS[1], BEGINNER_OPTIONS[2]) |-> 0]
    /\ is_open = [c \in Grid(BEGINNER_OPTIONS[1], BEGINNER_OPTIONS[2]) |-> FALSE]
    /\ state = [c \in Grid(BEGINNER_OPTIONS[1], BEGINNER_OPTIONS[2]) |-> "normal"]
    /\ text = [c \in Grid(BEGINNER_OPTIONS[1], BEGINNER_OPTIONS[2]) |-> ""]
    /\ player_name = None
    /\ leaderboards = [d \in Difficulties |-> <<>>]
    /\ queue = <<>>
    /\ enq = [c \in Grid(BEGINNER_OPTIONS[1], BEGINNER_OPTIONS[2]) |-> 0]
    /\ handling = NoHandler
    /\ submissions = 0
    /\ pending = 0
    /\ lastOp = Op("start", "new", FALSE, FALSE)

InitSession == Started /\ files \in StartFiles

\* show_leaderboards: the menu command "Leaderboards...".
show_leaderboards ==
    /\ leaderboards' = load_leaderboards(leaderboards, files)
    /\ lastOp' = Op("showLeaderboards", "shown", FALSE, FALSE)
    /\ UNCHANGED <<player_name, files>>
    /\ UNCHANGED gameVars

\* The loop of reset_leaderboards with one try around it: the first removal
\* that raises ends it.
DeleteFilesUntilFailure(fs, deletable) ==
    LET order == <<"beginner", "intermediate", "expert">>
        failed(i) == \E j \in 1..(i - 1) :
                        fs[order[j]].exists /\ order[j] \notin deletable
    IN  [d \in Difficulties |->
            LET i == CHOOSE k \in 1..3 : order[k] = d
            IN  IF fs[d].exists /\ d \in deletable /\ ~failed(i)
                THEN NoFile ELSE fs[d]]

\* os.remove in the loop of reset_leaderboards, for the files in deletable;
\* the removal of any other file raises.
DeleteFiles(fs, deletable) ==
    [d \in Difficulties |->
        IF fs[d].exists /\ d \in deletable THEN NoFile ELSE fs[d]]

\* reset_leaderboards, the "Reset Scores" button of the leaderboard window.
reset_leaderboards(confirmed, deletable) ==
    /\ IF confirmed
       THEN /\ leaderboards' = [d \in Difficulties |-> <<>>]
            /\ files' = DeleteFiles(files, deletable)
            /\ lastOp' = Op("resetLeaderboards", "reset", FALSE, FALSE)
       ELSE /\ UNCHANGED <<leaderboards, files>>
            /\ lastOp' = NoOp("resetLeaderboards")
    /\ UNCHANGED player_name
    /\ UNCHANGED gameVars

\* on_closing, the WM_DELETE_WINDOW handler: the leaderboards are saved and
\* the program ends; the state is that of the next start of the program.
on_closing(writable) ==
    /\ files' = save_leaderboards(leaderboards, files, writable)
    /\ StartProgram
    /\ lastOp' = Op("close", "new", FALSE, FALSE)

\* A win on a preset board calls update_leaderboard.
Submits == lastOp'.result = "Win" /\ CurrentDifficulty # None

\* -------------------------------------------------------------- the loader
\* load_leaderboards on the files a program start can find, one load each.

\* Rows the loader accepts: a plain one, one at the upper limit, one with an
\* empty name and a time beyond the limit.
AcceptedRows == {<<"a", "1">>, <<"c", "999">>, <<"", "1000">>}

\* Rows it skips: one field, three fields, an empty line, a time that is no
\* integer, a negative time, a time of zero.
SkippedRows == {<<"bob">>, <<"a", "1", "x">>, <<>>, <<"bob", "abc">>,
                <<"bob", "-5">>, <<"z", "0">>}

\* The lists of at most n rows out of S.
RowLists(S, n) == UNION {[1..k -> S] : k \in 0..n}

LoadFiles ==
    {[beginner |-> f, intermediate |-> NoFile, expert |-> NoFile] :
        f \in {NoFile, Mixed}
               \cup {[exists |-> TRUE, readable |-> r, rows |-> q] :
                        r \in BOOLEAN,
                        q \in RowLists(AcceptedRows, MaxRows)
                               \cup RowLists(AcceptedRows \cup SkippedRows,
                                             MaxMixedRows)}}

InitLoad == Started /\ files \in LoadFiles

LoadOnce ==
    /\ lastOp.op = "start"
    /\ show_leaderboards
    /\ UNCHANGED <<submissions, pending>>

SpecLoad == InitLoad /\ [][LoadOnce]_vars

SessionReveal ==
    /\ submissions < MaxSubmissions
    /\ \E c \in Playable : handle_click(c, Session)
    /\ submissions' = IF Submits THEN submissions + 1 ELSE submissions
    /\ UNCHANGED pending

SessionResetGame == ResetGame

SessionShow == show_leaderboards /\ UNCHANGED <<submissions, pending>>

\* "Reset Scores" is a button of the leaderboard window, which holds the grab
\* while it is open.
SessionResetScores ==
    /\ lastOp.op \in {"showLeaderboards", "resetLeaderboards"}
    /\ \E confirmed \in BOOLEAN, deletable \in SessionDeletes :
          reset_leaderboards(confirmed, deletable)
    /\ UNCHANGED <<submissions, pending>>

SessionClose ==
    /\ \E writable \in SessionWrites : on_closing(writable)
    /\ UNCHANGED <<submissions, pending>>

NextSession ==
    \/ SessionReveal
    \/ SessionResetGame
    \/ SessionShow
    \/ SessionResetScores
    \/ SessionClose

SpecSession == InitSession /\ [][NextSession]_vars

\* ----------------------------------------------------- the custom dialog
\* show_custom_difficulty_dialog: the three fields as typed, then OK.

\* The integers whose decimal text is typed into the fields of the dialog.
DialogValues == {-1, 0, 1, 2, 3, 4, 23, 24, 50, 51, 1149, 1150}

\* str(n)
DialogText == [n \in DialogValues |-> ToString(n)]

\* int(value) succeeds.
IsDialogInt(value) == \E n \in DialogValues : DialogText[n] = value

\* int(value)
DialogInt(value) == CHOOSE n \in DialogValues : DialogText[n] = value

\* value.isdecimal(): digits only, at least one.
isdecimal(value) == \E n \in DialogValues : n >= 0 /\ DialogText[n] = value

validate_width(value) ==
    \/ isdecimal(value) /\ MIN_WIDTH <= DialogInt(value)
                        /\ DialogInt(value) <= MAX_WIDTH
    \/ value = ""

validate_height(value) ==
    \/ isdecimal(value) /\ MIN_HEIGHT <= DialogInt(value)
                        /\ DialogInt(value) <= MAX_HEIGHT
    \/ value = ""

\* What is typed over the content of the height, width and mines fields.
HeightTyped == {"", "x", "0", "2", "23", "24"}

WidthTyped == {"", "0", "2", "50", "51"}

MinesTyped == {"x", "-1", "0", "3", "4", "1149", "1150"}

\* A Spinbox with validate="key": the edit is made when the validatecommand
\* accepts the new content, otherwise the content stays what it was.
Spinbox(content, typed, accepted) == IF accepted THEN typed ELSE content

\* apply_settings returns without calling set_difficulty.
Rejected ==
    /\ lastOp' = Op("newGame", "rejected", FALSE, FALSE)
    /\ UNCHANGED <<height, width, mines, game_over, is_first_click,
                   flags_left, timer_running, is_mine, adjacent_mines,
                   is_open, state, text, player_name, leaderboards, files,
                   queue, enq, handling>>

\* apply_settings without the test mines >= width * height.
apply_settings_any_mines(width_var, height_var, mines_var) ==
    IF ~(IsDialogInt(width_var) /\ IsDialogInt(height_var)
         /\ IsDialogInt(mines_var))
    THEN Rejected
    ELSE LET w == DialogInt(width_var)
             h == DialogInt(height_var)
             m == DialogInt(mines_var)
         IN  IF m < 0 THEN Rejected
             ELSE set_difficulty(<<h, w, m>>)

\* apply_settings, the OK button, on the contents of the three fields.
apply_settings(width_var, height_var, mines_var) ==
    IF ~(IsDialogInt(width_var) /\ IsDialogInt(height_var)
         /\ IsDialogInt(mines_var))
    THEN Rejected
    ELSE LET w == DialogInt(width_var)
             h == DialogInt(height_var)
             m == DialogInt(mines_var)
         IN  IF m < 0 THEN Rejected
             ELSE IF m >= w * h THEN Rejected
             ELSE set_difficulty(<<h, w, m>>)

\* The dialog opened on the current settings, the fields typed over, OK.
custom_difficulty(th, tw, tm) ==
    apply_settings(Spinbox(DialogText[width], tw, validate_width(tw)),
                   Spinbox(DialogText[height], th, validate_height(th)),
                   tm)

CustomGame ==
    /\ \E th \in HeightTyped, tw \in WidthTyped, tm \in MinesTyped :
          custom_difficulty(th, tw, tm)
    /\ UNCHANGED <<submissions, pending>>

\* The game is played on the boards within the bound.
CustomReveal == height * width <= MaxCells /\ Reveal

CustomToggleFlag == height * width <= MaxCells /\ ToggleFlag

InitCustom == Started /\ files = [d \in Difficulties |-> NoFile]

NextCustom == CustomGame \/ CustomReveal \/ CustomToggleFlag

SpecCustom == InitCustom /\ [][NextCustom]_vars

\* ------------------------------------------------- placing and counting
\* place_mines and calculate_adjacent_mines on every board of up to MaxBoard
\* cells with every number of mines, for every first reveal.
PlacementConfigs ==
    {cfg \in (MIN_HEIGHT..Min(MAX_HEIGHT, MaxBoard))
               \X (MIN_WIDTH..Min(MAX_WIDTH, MaxBoard))
               \X (0..(MaxBoard - 1)) :
        /\ cfg[1] * cfg[2] <= MaxBoard
        /\ cfg[3] < cfg[1] * cfg[2]}

InitPlacement == \E cfg \in PlacementConfigs : NewGameOn(cfg)

FirstRevealOnly == is_first_click /\ Reveal

SpecPlacement == InitPlacement /\ [][FirstRevealOnly]_vars

\* ------------------------------------------------------------ the timer
\* The game with the callbacks that start_timer and update_timer schedule
\* with root.after: a callback runs some time after it was scheduled, between
\* two handlers; stop_timer and reset_game cancel none.

\* handle_click with its start_timer: the first reveal calls update_timer,
\* which finds the timer running and schedules a callback.
TimerReveal ==
    /\ is_first_click => pending < MaxPending
    /\ \E c \in Playable : handle_click(c, Quiet)
    /\ pending' = IF lastOp'.placed THEN pending + 1 ELSE pending
    /\ UNCHANGED submissions

\* update_timer without its test: the callback always schedules itself again.
update_timer_unconditional ==
    /\ pending > 0
    /\ pending' = pending - 1 + 1
    /\ lastOp' = Op("tick", IF timer_running /\ ~game_over
                            THEN "rescheduled" ELSE "ended", FALSE, FALSE)
    /\ UNCHANGED <<height, width, mines, game_over, is_first_click,
                   flags_left, timer_running, is_mine, adjacent_mines,
                   is_open, state, text, player_name, leaderboards, files,
                   queue, enq, handling, submissions>>

\* update_timer run as a callback: it schedules itself again when the timer
\* is running and the game is not over, and otherwise does nothing.
update_timer ==
    /\ pending > 0
    /\ IF timer_running /\ ~game_over
       THEN /\ pending' = pending - 1 + 1
            /\ lastOp' = Op("tick", "rescheduled", FALSE, FALSE)
       ELSE /\ pending' = pending - 1
            /\ lastOp' = Op("tick", "ended", FALSE, FALSE)
    /\ UNCHANGED <<height, width, mines, game_over, is_first_click,
                   flags_left, timer_running, is_mine, adjacent_mines,
                   is_open, state, text, player_name, leaderboards, files,
                   queue, enq, handling, submissions>>

InitTimer == NewGameOn(BEGINNER_OPTIONS)

NextTimer == TimerReveal \/ ToggleFlag \/ ResetGame \/ update_timer

SpecTimer == InitTimer /\ [][NextTimer]_vars

\* ================================================================ claims
MineSet == {c \in Cells : is_mine[c]}

FlaggedSet == {c \in Cells : IsFlagged(c)}

OpenSet == {c \in Cells : is_open[c]}

SafeCells == {c \in Playable : ~is_mine[c]}

\* Every non-mine interior cell is open and no non-mine cell is flagged.
WinCondition == SafeCells \subseteq OpenSet /\ FlaggedSet \subseteq MineSet

\* C1: once the first reveal of a game has placed the mines, exactly `mines`
\* interior cells are mines and no border cell is one; the cell of that first
\* reveal is not a mine and the reveal is not a Loss.
C1_FirstClickSafe ==
    /\ [](~is_first_click =>
             /\ Cardinality(MineSet) = mines
             /\ MineSet \subseteq Playable)
    /\ [][\A c \in Playable :
             (lastOp'.op = "reveal" /\ is_first_click /\ ~is_first_click'
              /\ handle_click(c, Quiet))
             => /\ lastOp'.placed
                /\ ~is_mine'[c]
                /\ lastOp'.result # "Loss"]_vars

\* A first reveal on a board with two mines.
C1_Witness ==
    /\ lastOp.op = "reveal" /\ lastOp.placed
    /\ mines = 2
    /\ Cardinality(MineSet) = 2

\* C2: a reveal that opens cells ends the game as Win if and only if, after
\* the opening, every non-mine interior cell is open and no non-mine cell is
\* flagged.
C2_WinIffCondition ==
    (lastOp.op = "reveal" /\ lastOp.checked) =>
        /\ (lastOp.result = "Win") <=> WinCondition
        /\ game_over <=> WinCondition

\* A reveal after which every safe cell is open and a flag on a safe cell
\* holds the win back.
C2_Witness ==
    /\ lastOp.op = "reveal" /\ lastOp.checked
    /\ SafeCells \subseteq OpenSet
    /\ FlaggedSet \ MineSet # {}
    /\ lastOp.result = "Continue"

\* C3: no cell is both flagged and open.
C3_NoFlaggedOpen == FlaggedSet \cap OpenSet = {}

\* The engine state a reveal or a flag toggle can act on.
EngineUnchanged ==
    UNCHANGED <<is_open, text, is_mine, adjacent_mines, flags_left, game_over,
                timer_running, player_name, leaderboards, files>>

\* C4: reveal(cell) changes nothing when the game is over, the cell is
\* flagged or the cell is open.
C4_RevealNoOp ==
    [][\A c \in Playable :
          (/\ lastOp'.op = "reveal"
           /\ game_over \/ IsFlagged(c) \/ is_open[c]
           /\ handle_click(c, Quiet))
          => EngineUnchanged]_vars

\* C5: the reveal of a closed, unflagged mine is a Loss: the game is over,
\* every mine shows, no cell changes its open state, check_win is not run and
\* no leaderboard or leaderboard file changes.
C5_MineRevealIsLoss ==
    [][\A c \in Playable :
          (/\ lastOp'.op = "reveal"
           /\ ~game_over
           /\ is_mine[c] /\ ~is_open[c] /\ ~IsFlagged(c)
           /\ handle_click(c, Quiet))
          => /\ lastOp'.result = "Loss"
             /\ ~lastOp'.placed
             /\ game_over'
             /\ \A d \in Playable : is_mine[d] => text'[d] = "mine"
             /\ is_mine' = is_mine
             /\ is_open' = is_open
             /\ ~lastOp'.checked
             /\ UNCHANGED <<player_name, leaderboards, files>>]_vars

\* A lost game on a board with two mines, both showing.
C5_Witness ==
    /\ lastOp.op = "reveal" /\ lastOp.result = "Loss"
    /\ game_over
    /\ Cardinality({c \in Playable : text[c] = "mine"}) = 2

\* The board reset_game leaves: nothing open, flagged or mined, every flag
\* available.
FreshGame ==
    /\ ~game_over
    /\ is_first_click
    /\ OpenSet = {} /\ FlaggedSet = {} /\ MineSet = {}
    /\ flags_left = mines

\* C6: once the game is over, reveal and toggleFlag change no cell, not the
\* flag counter and not game_over; the game is playable again only through
\* newGame, which leaves a fresh board.
C6_GameOverAbsorbing ==
    [][/\ (game_over /\ lastOp'.op \in {"reveal", "toggleFlag"})
             => UNCHANGED <<is_open, text, state, is_mine, flags_left,
                            game_over>>
       /\ (game_over /\ ~game_over') => lastOp'.op = "newGame"
       /\ lastOp'.op = "newGame" => FreshGame']_vars

\* A flag toggle asked for after the game has ended, with a flag on the
\* board.
C6_Witness ==
    /\ game_over
    /\ lastOp.op = "toggleFlag"
    /\ FlaggedSet # {}

\* A losing reveal has put the mine marker on the mines.
Lost == \E c \in Playable : text[c] = "mine"

\* C7 as stated: the counter is within 0..mines and equals mines minus the
\* number of flagged cells, in every state.
C7_CounterMatchesFlags ==
    /\ 0 <= flags_left /\ flags_left <= mines
    /\ flags_left = mines - Cardinality(FlaggedSet)

\* What toggleFlag does on the cell c of a game in progress.
C7_ToggleStep(c) ==
    /\ (~IsFlagged(c) /\ ~is_open[c] /\ flags_left > 0)
          => /\ text' = [text EXCEPT ![c] = "flag"]
             /\ flags_left' = flags_left - 1
    /\ (~IsFlagged(c) /\ ~is_open[c] /\ flags_left = 0)
          => UNCHANGED <<text, flags_left>>
    /\ IsFlagged(c)
          => /\ text' = [text EXCEPT ![c] = ""]
             /\ flags_left' = flags_left + 1

\* C7, amended: the counter is within 0..mines in every state and equals
\* mines minus the number of flagged cells until a game is lost; toggleFlag
\* flags an unflagged closed cell only while the counter is positive and
\* unflags a flagged cell; a reveal never changes the counter, and changes
\* flags only when it is a Loss, which turns the flag of every flagged mine
\* into the mine marker.
C7_CounterAmended ==
    /\ [](/\ 0 <= flags_left /\ flags_left <= mines
          /\ ~Lost => flags_left = mines - Cardinality(FlaggedSet))
    /\ [][/\ \A c \in Playable :
                (lastOp'.op = "toggleFlag" /\ ~game_over /\ toggle_flag(c))
                => C7_ToggleStep(c)
          /\ lastOp'.op = "reveal"
                => /\ flags_left' = flags_left
                   /\ FlaggedSet' = IF lastOp'.result = "Loss"
                                    THEN FlaggedSet \ MineSet'
                                    ELSE FlaggedSet]_vars

\* A lost game in which a mine and a safe cell had been flagged: the flag on
\* the safe cell stands, the one on the mine is gone and the counter still
\* counts it.
C7_Witness ==
    /\ Lost
    /\ lastOp.op = "reveal" /\ lastOp.result = "Loss"
    /\ FlaggedSet # {}
    /\ flags_left < mines - Cardinality(FlaggedSet)

\* C8: toggleFlag on an open cell changes neither a flag nor the counter.
C8_ToggleOpenNoOp ==
    [][\A c \in Playable :
          (lastOp'.op = "toggleFlag" /\ is_open[c] /\ toggle_flag(c))
          => UNCHANGED <<text, flags_left>>]_vars

\* C9: in every flood fill each interior cell is appended to the work list at
\* most once and no border cell ever is, and a flood fill that has started
\* empties its work list and ends.
C9_FloodTerminates ==
    /\ [](/\ \A c \in Cells : enq[c] <= 1
          /\ \A c \in Cells \ Playable : enq[c] = 0
          /\ Range(queue) \subseteq Playable
          /\ queue # <<>> => handling.active)
    /\ handling.active ~> (queue = <<>> /\ ~handling.active)

\* A flood fill over a 2 x 2 board without mines has ended: every cell went
\* through the work list once and is open.
C9_Witness ==
    /\ ~handling.active
    /\ lastOp.op = "reveal"
    /\ mines = 0 /\ height = 2 /\ width = 2
    /\ \A c \in Playable : enq[c] = 1 /\ is_open[c]

\* The interior cells around z.
Around(z) == {Neighbour(z, k) : k \in 1..9} \cap Playable

\* The least set holding the cells of S and, for each of its cells without
\* adjacent mines, the unopened and unflagged interior cells around it.
RECURSIVE LeastRegion(_, _, _, _)
LeastRegion(S, adj, o, tx) ==
    LET more == {n \in Playable :
                    /\ ~o[n] /\ tx[n] # "flag"
                    /\ \E z \in S : adj[z] = 0 /\ n \in Around(z)}
    IN  IF more \subseteq S THEN S ELSE LeastRegion(S \cup more, adj, o, tx)

\* The cells a flood fill from c leaves open under a work-list discipline.
FloodOpenSet(c, adj, discipline) ==
    LET f == RevealLoop(FloodStart(c, adj, is_open, state, text), discipline)
    IN  {d \in Cells : f.is_open[d]}

\* C10: the reveal of a closed, unflagged, non-mine cell c leaves open the
\* cells open before plus c alone when c has adjacent mines, and otherwise
\* plus the least region around c closed under "the unopened, unflagged
\* interior neighbours of a cell without adjacent mines"; a stack and a queue
\* give the same open set, and no mine is in it.
C10_OpenSetIsLeastRegion ==
    [][\A c \in Playable :
          (/\ lastOp'.op = "reveal" /\ lastOp'.checked
           /\ ~is_open[c] /\ ~IsFlagged(c)
           /\ handle_click(c, Quiet))
          => LET adj == adjacent_mines'
             IN  /\ OpenSet' = OpenSet \cup
                        (IF adj[c] > 0 THEN {c}
                         ELSE LeastRegion({c}, adj, is_open, text))
                 /\ adj[c] = 0 =>
                        FloodOpenSet(c, adj, "stack")
                            = FloodOpenSet(c, adj, "queue")
                 /\ OpenSet' \cap MineSet' = {}]_vars

\* ------------------------------------------------ leaderboard claims
\* A leaderboard entry as the spec defines it.
EntryInRange(e) ==
    /\ 1 <= e.time /\ e.time <= 999
    /\ e.name # "" /\ e.name # None

\* A persisted row holding such an entry.
RowInRange(row) ==
    /\ Len(row) = 2
    /\ row[1] # ""
    /\ IsIntText(row[2])
    /\ 1 <= IntOf(row[2]) /\ IntOf(row[2]) <= 999

\* C11: every in-memory leaderboard entry has a time in 1..999 and a
\* non-empty name, and so has every row of a file the program writes: a win
\* in 0 seconds or in more than 999 is stored clamped, an empty name as
\* "Anonymous".
C11_EntriesInRange ==
    /\ [](\A d \in Difficulties : \A i \in 1..Len(leaderboards[d]) :
             EntryInRange(leaderboards[d][i]))
    /\ [][\A d \in Difficulties :
             files'[d] # files[d] =>
                 \A i \in 1..Len(files'[d].rows) :
                     RowInRange(files'[d].rows[i])]_vars

\* The difficulty's leaderboard as a submission finds it: reloaded from its
\* file when there is one.
Reloaded(d) == load_leaderboards(leaderboards, files)[d]

\* The step is a win on a preset board, which submits the time.
Submission == lastOp'.op = "reveal" /\ Submits

\* An entry as a reload of what was saved shows it.
Stored(e) ==
    LeaderboardEntry(IF e.name = None THEN "Anonymous" ELSE e.name,
                     IF e.time > 999 THEN 999 ELSE e.time)

\* The entries of a leaderboard that a save and a reload keep, as the reload
\* shows them.
StoredList(entries) ==
    LET kept == SelectSeq(entries, LAMBDA e : e.time > 0)
    IN  [i \in 1..Len(kept) |-> Stored(kept[i])]

SortedByTime(entries) ==
    \A i, j \in 1..Len(entries) : i < j => entries[i].time <= entries[j].time

\* rest is the head of old, as it was or as a reload shows it.
HeadOf(rest, old) ==
    \/ rest = SubSeq(old, 1, Min(Len(rest), Len(old)))
    \/ rest = SubSeq(StoredList(old), 1, Min(Len(rest), Len(StoredList(old))))

\* new is old with at most one entry put in, behind every entry of the same
\* time, and cut to five; the entries of old keep their order.
InsertedBehindEquals(old, new) ==
    \/ HeadOf(new, old)
    \/ \E i \in 1..Len(new) :
          /\ HeadOf(RemoveAt(new, i), old)
          /\ \A j \in (i + 1)..Len(new) : new[j].time > new[i].time

\* C12: every in-memory leaderboard has at most 5 entries in ascending order
\* of time, and a submission leaves the entries that were there in their
\* order and ranks the new entry below the entries of the same time.
C12_SortedStable ==
    /\ [](\A d \in Difficulties :
             /\ Len(leaderboards[d]) <= 5
             /\ SortedByTime(leaderboards[d]))
    /\ [][Submission =>
             LET old == Reloaded(CurrentDifficulty)
                 new == leaderboards'[CurrentDifficulty]
             IN  InsertedBehindEquals(old, new)]_vars

\* The times of a leaderboard, in its order.
TimesOf(entries) == [i \in 1..Len(entries) |-> entries[i].time]

\* The ascending sequence ts with t put in.
RECURSIVE WithTime(_, _)
WithTime(ts, t) ==
    IF ts = <<>> THEN <<t>>
    ELSE IF t < ts[1] THEN <<t>> \o ts
    ELSE <<ts[1]>> \o WithTime(Tail(ts), t)

\* The five lowest of the times ts and t.
FiveLowest(ts, t) ==
    SubSeq(WithTime(ts, t), 1, Min(5, Len(ts) + 1))

\* One environment: this elapsed time, any name, every file writable.
Elapsed(t) == [times |-> {t}, names |-> SessionNames,
               writable |-> {Difficulties}]

\* C13: a submission of the time t that is saved leaves the difficulty's
\* leaderboard with the five lowest of the times it held and t clamped to at most 999, in
\* ascending order: starting from an empty store, the leaderboard is the
\* min(n, 5) lowest of the n times submitted and none of them is lost.
C13_FiveLowestKept ==
    [][\A c \in Playable : \A t \in SessionTimes :
          (Submission /\ handle_click(c, Elapsed(t)))
          => TimesOf(leaderboards'[CurrentDifficulty])
                = FiveLowest(TimesOf(Reloaded(CurrentDifficulty)),
                             Min(t, 999))]_vars

\* qualifies(difficulty, time) as the spec defines it.
ShouldQualify(entries, t) ==
    Len(entries) < 5 \/ t < entries[5].time

\* C14: a win in t seconds on a preset board is entered exactly when the
\* difficulty's leaderboard has fewer than 5 entries or t is less than its
\* 5th time: then the name is asked for and, unless the save fails, the
\* difficulty's file is written with one row more, up to 5, the row of the
\* win among them; otherwise, a tie with the 5th place included, the
\* leaderboard is as the reload left it and no file changes.
C14_QualifiesExactly ==
    [][Submission =>
          LET d == CurrentDifficulty
              t == lastOp'.elapsed
              old == Reloaded(d)
          IN  IF ShouldQualify(old, t)
              THEN /\ player_name' # None \/ player_name = None
                   /\ \/ files' = files
                      \/ /\ Len(files'[d].rows) = Min(Len(old) + 1, 5)
                         /\ \E i \in 1..Len(files'[d].rows) :
                               /\ files'[d].rows[i][2] = ToString(t)
                               /\ files'[d].rows[i][1] \in {player_name', ""}
              ELSE /\ leaderboards'[d] = old
                   /\ files' = files
                   /\ player_name' = player_name]_vars

\* A win that ties with the 5th place of a full leaderboard and is not
\* entered.
C14_Witness ==
    /\ lastOp.op = "reveal" /\ lastOp.result = "Win"
    /\ lastOp.elapsed = 999
    /\ files["beginner"] = Full
    /\ TimesOf(leaderboards["beginner"]) = <<1, 1, 1, 999, 999>>
    /\ player_name = None

\* The texts of the positive integers in the model's files.
PositiveTexts == {"1", "999", "1000"}

\* A persisted row is well formed: two fields, the second a positive integer.
WellFormed(row) == Len(row) = 2 /\ row[2] \in PositiveTexts

\* The entry a well-formed row stands for.
EntryOf(row) ==
    [name |-> IF row[1] = "" THEN "Anonymous" ELSE row[1],
     time |-> IF row[2] = "1" THEN 1 ELSE 999]

\* entries in ascending order of time, equal times in the order they have:
\* those of the least time first, then the others in the same way.
RECURSIVE AscendingStable(_)
AscendingStable(entries) ==
    IF entries = <<>> THEN <<>>
    ELSE LET least == CHOOSE t \in {entries[i].time : i \in 1..Len(entries)} :
                         \A i \in 1..Len(entries) : t <= entries[i].time
         IN  SelectSeq(entries, LAMBDA e : e.time = least)
             \o AscendingStable(SelectSeq(entries, LAMBDA e : e.time # least))

\* What load has to return for a file.
ShouldLoad(file) ==
    IF ~file.exists \/ ~file.readable THEN <<>>
    ELSE LET wf == SelectSeq(file.rows, WellFormed)
             entries == [i \in 1..Len(wf) |-> EntryOf(wf[i])]
             sorted == AscendingStable(entries)
         IN  SubSeq(sorted, 1, Min(5, Len(sorted)))

Held(d) ==
    Take5(SortByTime(Append(Reloaded(d),
                            LeaderboardEntry(player_name', lastOp'.elapsed))))

\* The file that a save of entries leaves.
SavedFile(entries) ==
    [exists |-> TRUE, readable |-> TRUE,
     rows |-> [i \in 1..Len(entries) |-> WriteRow(entries[i])]]

\* C16: when a submission has saved the leaderboard it holds in memory, the
\* load that follows returns the identical ordered sequence of (name, time)
\* entries.
C16_RoundTrip ==
    [][\A d \in Difficulties :
          (/\ Submission
           /\ CurrentDifficulty = d
           /\ Qualifies(Reloaded(d), lastOp'.elapsed)
           /\ files'[d] = SavedFile(Held(d)))
          => leaderboards'[d] = Held(d)]_vars

\* The entries of d that a program started on the files fs is shown.
Persisted(fs, d) ==
    load_leaderboards([e \in Difficulties |-> <<>>], fs)[d]

\* The step is a submission that enters its time.
QualifyingSubmission ==
    /\ Submission
    /\ Qualifies(Reloaded(CurrentDifficulty), lastOp'.elapsed)

\* C17: a step that is neither a qualifying submission nor a reset (a program
\* start, a new game, a reveal, a flag, a win that does not qualify, a loss,
\* a look at the leaderboards, closing the window) leaves the persisted
\* entries of every difficulty as they were, so the next session is shown
\* them.
C17_PersistedKept ==
    [][(~QualifyingSubmission /\ lastOp'.op # "resetLeaderboards")
          => \A d \in Difficulties :
                Persisted(files', d) = Persisted(files, d)]_vars

\* The step is a qualifying submission whose save could not write the file
\* of its difficulty (a save that writes always changes the file, since it
\* adds a row or makes the file readable).
FailedSave ==
    /\ QualifyingSubmission
    /\ files'[CurrentDifficulty] = files[CurrentDifficulty]

\* C18: after a submission whose save failed, the in-memory leaderboard of
\* the difficulty is the one that was to be saved, with the new entry, sorted
\* and cut to 5, and the game is over as won.
C18_FailedSaveKeepsMemory ==
    [][FailedSave =>
          /\ leaderboards'[CurrentDifficulty] = Held(CurrentDifficulty)
          /\ game_over'
          /\ lastOp'.result = "Win"]_vars

\* The step is a reset that was confirmed.
ConfirmedReset ==
    lastOp'.op = "resetLeaderboards" /\ lastOp'.result = "reset"

InvalidRequest(width_var, height_var, mines_var) ==
    \/ width_var \in {"", "x"}
    \/ height_var \in {"", "x"}
    \/ mines_var \in {"", "x", "-1"}
    \/ DialogInt(mines_var) >= DialogInt(width_var) * DialogInt(height_var)

\* C20: a height outside [1, 23] or a width outside [1, 50] does not get into
\* its field, and OK on fields that hold no number, negative mines or at
\* least height * width mines changes neither the dimensions, the mine count,
\* the cells, the flag counter, the first-click flag nor the game-over flag;
\* so in every state 1 <= height <= 23, 1 <= width <= 50 and
\* 0 <= mines < height * width.
C20_InvalidSettingsRejected ==
    /\ [](/\ MIN_HEIGHT <= height /\ height <= MAX_HEIGHT
          /\ MIN_WIDTH <= width /\ width <= MAX_WIDTH
          /\ 0 <= mines /\ mines < height * width)
    /\ [][\/ UNCHANGED <<height, width, mines, game_over, is_first_click,
                         flags_left, is_mine, adjacent_mines, is_open, state,
                         text>>
          \/ \A th \in HeightTyped, tw \in WidthTyped, tm \in MinesTyped :
                LET width_var == IF tw \in {"0", "51"} THEN DialogText[width]
                                 ELSE tw
                    height_var == IF th \in {"x", "0", "24"}
                                  THEN DialogText[height] ELSE th
                IN  ~(/\ InvalidRequest(width_var, height_var, tm)
                      /\ custom_difficulty(th, tw, tm))]_vars

\* Too many mines were asked for in the middle of a game, which goes on.
C20_Witness ==
    /\ lastOp.result = "rejected"
    /\ ~is_first_click
    /\ ~game_over
    /\ \E c \in Playable : is_open[c]

\* The step is a reveal that does something in a game awaiting its first
\* reveal.
FirstReveal ==
    is_first_click /\ lastOp'.op = "reveal" /\ lastOp'.result # "noop"

\* C21: while the game awaits its first reveal no cell is open and no cell is
\* a mine; the first reveal that acts places the mines and computes the
\* counts, and it is the only call that does: every other reveal and every
\* toggleFlag leaves the mines and the counts of all cells as they are.
C21_PlacedOncePerGame ==
    /\ [](is_first_click => \A c \in Cells : ~is_open[c] /\ ~is_mine[c])
    /\ [][lastOp'.op \in {"reveal", "toggleFlag"} =>
            IF FirstReveal
            THEN /\ lastOp'.placed
                 /\ ~is_first_click'
                 /\ adjacent_mines' = calculate_adjacent_mines(is_mine')
            ELSE /\ ~lastOp'.placed
                 /\ is_first_click' = is_first_click
                 /\ is_mine' = is_mine
                 /\ adjacent_mines' = adjacent_mines]_vars

\* A later reveal of a game whose mines a first reveal placed.
C21_Witness ==
    /\ lastOp.op = "reveal"
    /\ lastOp.result = "Continue"
    /\ ~lastOp.placed
    /\ MineSet # {}
    /\ \E c \in Playable : adjacent_mines[c] > 0

\* The interior cells around c.
InteriorNeighbours(c) ==
    {d \in Playable : /\ d # c
                      /\ d[1] - c[1] \in {-1, 0, 1}
                      /\ d[2] - c[2] \in {-1, 0, 1}}

\* C22: once the mines are placed, no border cell is a mine and the count of
\* every interior cell that is no mine, on edges and in corners as well, is
\* the number of mines among the interior cells around it, between 0 and 8.
C22_AdjacentCounts ==
    ~is_first_click =>
        /\ \A c \in Cells \ Playable : ~is_mine[c]
        /\ \A c \in Playable :
              ~is_mine[c] =>
                  /\ adjacent_mines[c] =
                        Cardinality({d \in InteriorNeighbours(c) : is_mine[d]})
                  /\ adjacent_mines[c] \in 0..8

\* The centre of a 3 by 3 board with a mine on each of its 8 sides.
C22_Witness ==
    /\ ~is_first_click
    /\ \E c \in Playable : ~is_mine[c] /\ adjacent_mines[c] = 8
    /\ height = 3 /\ width = 3

\* The step is a win.
Win == lastOp'.op = "reveal" /\ lastOp'.result = "Win"

\* C23: a win on a preset board that qualifies adds one entry to the
\* leaderboard of that preset's difficulty and leaves the entries of the
\* other difficulties, in memory and persisted, as a look at the leaderboards
\* shows them; a win that does not qualify adds none; a win on any other
\* board changes no leaderboard and no file.
C23_WinUpdatesItsDifficulty ==
    [][Win =>
          IF CurrentDifficulty = None
          THEN UNCHANGED <<leaderboards, files>>
          ELSE /\ Len(leaderboards'[CurrentDifficulty]) =
                     IF Qualifies(Reloaded(CurrentDifficulty), lastOp'.elapsed)
                     THEN Min(5, Len(Reloaded(CurrentDifficulty)) + 1)
                     ELSE Len(Reloaded(CurrentDifficulty))
               /\ \A e \in Difficulties \ {CurrentDifficulty} :
                     /\ leaderboards'[e] = Reloaded(e)
                     /\ Persisted(files', e) = Persisted(files, e)]_vars

\* C24: after a reveal or a toggleFlag in a game whose mines are placed, if
\* every non-mine interior cell is open and no non-mine cell is flagged, the
\* game is over, and over as won: the mine marker is on no cell.
C24_WinDetected ==
    (/\ ~is_first_click
     /\ lastOp.op \in {"reveal", "toggleFlag"}
     /\ WinCondition)
    => /\ game_over
       /\ \A c \in Playable : text[c] # "mine"

\* C25: at most one update_timer callback is scheduled at any time.
C25_OneTickChain == pending <= 1

\* C26: the timer is running exactly when the game has had its first reveal
\* and is not over; a toggleFlag and a tick leave it as it is, and a tick
\* that fires while the timer is stopped or the game is over is not
\* scheduled again.
C26_TimerRunsDuringPlay ==
    /\ [](timer_running <=> (~is_first_click /\ ~game_over))
    /\ [][/\ lastOp'.op \in {"toggleFlag", "tick"}
                => timer_running' = timer_running
          /\ (lastOp'.op = "tick" /\ (~timer_running \/ game_over))
                => pending' = pending - 1]_vars

\* The tick of a game that was won or lost has fired and none is left.
C26_Witness ==
    /\ lastOp.op = "tick"
    /\ lastOp.result = "ended"
    /\ game_over
    /\ ~timer_running
    /\ pending = 0

====
